---------------------------- MODULE Spec2Model ----------------------------
(***************************************************************************)
(* Lazily built, shape-inferring nodes of magnet (magnet/nodes.py): Node,  *)
(* MonoNode, Conv, Linear, Lambda, the replication operator, and the       *)
(* CallbackQueue of magnet/training/callbacks.py.                          *)
(*                                                                         *)
(* Python values are tagged records so that values of different Python     *)
(* types can be compared (p == 'half' with an integer p is False, never an *)
(* error).  A tensor is modelled by its shape, a tuple of naturals; Python *)
(* index i of a shape is index i+1 of the tuple.                           *)
(***************************************************************************)
EXTENDS Integers, Sequences, FiniteSets, TLC

(***************************************************************************)
(* Bounds of the model.                                                    *)
(***************************************************************************)
\* the largest number of node objects alive at once
MaxNodes == 3
\* the largest number of build invocations followed, over all nodes
MaxBuilds == 2
\* the largest spatial size of an input
MaxS == 3
\* the largest kernel size of a constructed Conv
MaxK == 3

(***************************************************************************)
(* Python values.                                                          *)
(***************************************************************************)
PyNone == [t |-> "none", n |-> 0, s |-> ""]
PyInt(n) == [t |-> "int", n |-> n, s |-> ""]
PyStr(s) == [t |-> "str", n |-> 0, s |-> s]
PyBool(b) == [t |-> "bool", n |-> IF b THEN 1 ELSE 0, s |-> ""]
PyFn(f) == [t |-> "fn", n |-> 0, s |-> f]

IsInt(v) == v.t = "int"
IsStr(v) == v.t = "str"
Truthy(v) == CASE v.t = "bool" -> v.n = 1
               [] v.t = "int"  -> v.n # 0
               [] v.t = "str"  -> v.s # ""
               [] v.t = "none" -> FALSE
               [] OTHER        -> TRUE

\* a Python dict: a function from key strings to values
EmptyDict == [x \in {} |-> PyNone]
Put(d, k, v) == [x \in DOMAIN d \cup {k} |-> IF x = k THEN v ELSE d[x]]
Without(d, k) == [x \in DOMAIN d \ {k} |-> d[x]]

(***************************************************************************)
(* Declared parameters, in declaration order (dict order after update).    *)
(***************************************************************************)
Node_default_params == << >>

MonoNode_default_params == << <<"act", PyStr("relu")>> >> \o Node_default_params

Conv_default_params ==
    << <<"c", PyNone>>, <<"k", PyInt(3)>>, <<"p", PyStr("half")>>, <<"s", PyInt(1)>>,
       <<"d", PyInt(1)>>, <<"g", PyInt(1)>>, <<"b", PyBool(TRUE)>> >>
    \o MonoNode_default_params

\* Linear declares act itself; the update with MonoNode's table keeps its place
Linear_default_params ==
    << <<"o", PyNone>>, <<"b", PyBool(TRUE)>>, <<"act", PyStr("relu")>>,
       <<"flat", PyBool(TRUE)>> >>

_default_params(kind) ==
    CASE kind = "Conv"   -> Conv_default_params
      [] kind = "Linear" -> Linear_default_params
      [] OTHER           -> Node_default_params

(***************************************************************************)
(* Construction: capture of the constructor call into name and _args.      *)
(***************************************************************************)
\* the locals of the outermost constructor frame: MonoNode.__init__ has
\* (*args, **kwargs), Lambda.__init__ has (fn)
caller_locals(kind, args, kwargs) ==
    IF kind = "Lambda"
    THEN [args |-> << >>, kwargs |-> EmptyDict, rest |-> kwargs]
    ELSE [args |-> args, kwargs |-> kwargs, rest |-> EmptyDict]

\* lines 48-53: the node's name and what is left of args and kwargs
ParseName(kind, loc) ==
    IF Len(loc.args) > 0 /\ IsStr(loc.args[1])
    THEN [name |-> loc.args[1].s, args |-> Tail(loc.args), kwargs |-> loc.kwargs]
    ELSE IF "name" \in DOMAIN loc.kwargs
    THEN [name |-> loc.kwargs["name"].s, args |-> loc.args,
          kwargs |-> Without(loc.kwargs, "name")]
    ELSE [name |-> kind, args |-> loc.args, kwargs |-> loc.kwargs]

\* lines 57-59: positional arguments by position in the declared order
RECURSIVE BindPositional(_, _, _, _)
BindPositional(dpl, args, i, acc) ==
    IF i > Len(args) THEN acc
    ELSE BindPositional(dpl, args, i + 1, Put(acc, dpl[i][1], args[i]))

\* lines 62-66: a keyword overrides, a parameter not yet bound takes its default
RECURSIVE BindDefaults(_, _, _, _)
BindDefaults(dpl, kwargs, i, acc) ==
    IF i > Len(dpl) THEN acc
    ELSE LET param_name == dpl[i][1]
             default    == dpl[i][2]
         IN  BindDefaults(dpl, kwargs, i + 1,
                 IF param_name \in DOMAIN kwargs
                 THEN Put(acc, param_name, kwargs[param_name])
                 ELSE IF param_name \notin DOMAIN acc
                 THEN Put(acc, param_name, default)
                 ELSE acc)

\* lines 55-69: the bindings, given the name and what is left of the call
BindAll(nm, dpl, rest) ==
    IF Len(nm.args) > Len(dpl)
    THEN [err |-> "IndexError", name |-> nm.name, _args |-> EmptyDict]
    ELSE [err |-> "", name |-> nm.name,
          _args |-> BindDefaults(dpl, nm.kwargs, 1,
                        BindPositional(dpl, nm.args, 1, rest))]

ParseLocals(kind, loc) == BindAll(ParseName(kind, loc), _default_params(kind), loc.rest)

_parse_params(kind, args, kwargs) == ParseLocals(kind, caller_locals(kind, args, kwargs))

\* the keys of activation_dict; None is the identity
activation_dict == {PyStr("relu"), PyStr("sigmoid"), PyStr("tanh"), PyStr("lrelu"), PyNone}

NoLayer == [cls |-> "none", kw |-> EmptyDict, id |-> 0]

\* a node object: _upsample = 0 stands for the attribute being absent,
\* nbuilds counts the invocations of build, captured keeps the value _args
\* had when the constructor returned, and args_id is the identity of the
\* dict object _args refers to, given when the node is placed among the nodes
NewNode(kind, name, a, act) ==
    [kind |-> kind, name |-> name, _args |-> a, _built |-> FALSE,
     _layer |-> NoLayer, _upsample |-> 0, _activation |-> act, nbuilds |-> 0,
     captured |-> a, args_id |-> 0]

NoNode == NewNode("none", "", EmptyDict, PyNone)

_set_activation(n) ==
    IF n._args["act"] \in activation_dict
    THEN [err |-> "", node |-> [n EXCEPT !._activation = n._args["act"]]]
    ELSE [err |-> "KeyError", node |-> NoNode]

\* Lambda.__init__(self, fn) takes exactly the one argument fn
LambdaCallOk(args, kwargs) ==
    \/ Len(args) = 1 /\ DOMAIN kwargs = {}
    \/ Len(args) = 0 /\ DOMAIN kwargs = {"fn"}

Lambda_named(fn) ==
    [err |-> "",
     node |-> NewNode("Lambda", fn.s,
                      _parse_params("Lambda", << >>, Put(EmptyDict, "fn", fn))._args,
                      PyNone)]

Lambda_init(args, kwargs) ==
    IF ~LambdaCallOk(args, kwargs) THEN [err |-> "TypeError", node |-> NoNode]
    ELSE Lambda_named(IF Len(args) = 1 THEN args[1] ELSE kwargs["fn"])

\* MonoNode.__init__ once Node.__init__ has parsed the call
MonoNode_parsed(kind, pp) ==
    IF pp.err # "" THEN [err |-> pp.err, node |-> NoNode]
    ELSE _set_activation(NewNode(kind, pp.name, pp._args, PyNone))

MonoNode_init(kind, args, kwargs) ==
    MonoNode_parsed(kind, _parse_params(kind, args, kwargs))

\* kind(*args, **kwargs)
Construct(kind, args, kwargs) ==
    IF kind = "Lambda" THEN Lambda_init(args, kwargs)
    ELSE MonoNode_init(kind, args, kwargs)

(***************************************************************************)
(* Shapes and the layers of the tensor runtime.                            *)
(***************************************************************************)
RECURSIVE prod(_)
prod(sh) == IF Len(sh) = 0 THEN 1 ELSE Head(sh) * prod(Tail(sh))

Ok(n, x) == [node |-> n, err |-> "", at |-> "", out |-> x]
Fail(n, e, where) == [node |-> n, err |-> e, at |-> where, out |-> << >>]

\* F.upsample(x, scale_factor=f): 3-, 4- and 5-dimensional inputs only
upsample(x, f) ==
    IF Len(x) \in 3..5
    THEN [err |-> "", out |-> [i \in 1..Len(x) |-> IF i <= 2 THEN x[i] ELSE f * x[i]]]
    ELSE [err |-> "NotImplementedError", out |-> << >>]

\* the output size of a convolution along one spatial dimension
ConvOutSize(S, k, p, d, s) == ((S + 2 * p - d * (k - 1) - 1) \div s) + 1

ConvRank(cls) == CASE cls = "Conv1d" -> 1 [] cls = "Conv2d" -> 2 [] OTHER -> 3

\* layer(x) of a ConvNd layer
ConvApply(layer, x) ==
    LET kw == layer.kw
    IN  IF Len(x) # ConvRank(layer.cls) + 2 \/ x[2] # kw["in_channels"].n
        THEN [err |-> "RuntimeError", out |-> << >>]
        ELSE IF ~(IsInt(kw["padding"]) /\ IsInt(kw["kernel_size"])
                  /\ IsInt(kw["stride"]) /\ IsInt(kw["dilation"]))
        THEN [err |-> "TypeError", out |-> << >>]
        ELSE IF \E i \in 3..Len(x) :
                   x[i] + 2 * kw["padding"].n
                     - kw["dilation"].n * (kw["kernel_size"].n - 1) - 1 < 0
        THEN [err |-> "RuntimeError", out |-> << >>]
        ELSE [err |-> "",
              out |-> [i \in 1..Len(x) |->
                        IF i = 1 THEN x[1]
                        ELSE IF i = 2 THEN kw["out_channels"].n
                        ELSE ConvOutSize(x[i], kw["kernel_size"].n, kw["padding"].n,
                                         kw["dilation"].n, kw["stride"].n)]]

\* layer(x) of a Linear layer
LinearApply(layer, x) ==
    IF Len(x) = 0 \/ x[Len(x)] # layer.kw["in_features"].n
    THEN [err |-> "RuntimeError", out |-> << >>]
    ELSE [err |-> "",
          out |-> [i \in 1..Len(x) |->
                    IF i = Len(x) THEN layer.kw["out_features"].n ELSE x[i]]]

\* self._layer(x); the attribute is absent before the first build
LayerApply(layer, x) ==
    IF layer.cls = "none" THEN [err |-> "AttributeError", out |-> << >>]
    ELSE IF layer.cls = "Linear" THEN LinearApply(layer, x)
    ELSE ConvApply(layer, x)

\* layer_class(**kwargs): the constructors of the runtime.  Whether a ConvNd
\* constructor rejects a padding string it does not know depends on the
\* runtime's version (strict)
LayerCtorErr(cls, kw, strict) ==
    IF cls = "Linear"
    THEN IF IsInt(kw["out_features"]) THEN "" ELSE "TypeError"
    ELSE IF ~(IsInt(kw["out_channels"]) /\ IsInt(kw["groups"])) THEN "TypeError"
    ELSE IF kw["in_channels"].n % kw["groups"].n # 0
            \/ kw["out_channels"].n % kw["groups"].n # 0 THEN "ValueError"
    ELSE IF strict /\ IsStr(kw["padding"]) THEN "ValueError"
    ELSE ""

\* self._activation(y): partial(F.leaky_relu, leak=0.2) names a keyword the
\* function does not have
ActivationErr(act) == IF act = PyStr("lrelu") THEN "TypeError" ELSE ""

(***************************************************************************)
(* Conv.                                                                   *)
(***************************************************************************)
\* lines 173-174: out-channels left unset become stride * in-channels
ResolveChannels(n, in_shape) ==
    IF n._args["c"] # PyNone THEN Ok(n, in_shape)
    ELSE IF Len(in_shape) < 2 THEN Fail(n, "IndexError", "_set_padding")
    ELSE Ok([n EXCEPT !._args["c"] = PyInt(n._args["s"].n * in_shape[2])], in_shape)

\* line 172: padding k // 2
ResolveP(n, in_shape) ==
    IF ~IsInt(n._args["k"]) THEN Fail(n, "TypeError", "_set_padding")
    ELSE ResolveChannels([n EXCEPT !._args["p"] = PyInt(n._args["k"].n \div 2)],
                         in_shape)

\* lines 166-174, with the scale f = fnum / fden and s = 1 / f
ResolvePadding(n, fnum, fden, in_shape) ==
    IF fden % fnum # 0
    THEN Fail(n, "RuntimeError", "_set_padding")
    ELSE ResolveP([n EXCEPT !._args["d"] = PyInt(1),
                            !._args["s"] = PyInt(fden \div fnum)], in_shape)

\* the out-channels of the 'double' mode stored under a key of its own
ResolveDouble_newKey(n, in_shape) ==
    IF Len(in_shape) < 2 THEN Fail(n, "IndexError", "_set_padding")
    ELSE ResolvePadding([n EXCEPT !._args = Put(@, "c_double", PyInt(in_shape[2] \div 2))],
                        1, 1, in_shape)

\* lines 160-163: the 'double' mode
ResolveDouble(n, in_shape) ==
    IF Len(in_shape) < 2 THEN Fail(n, "IndexError", "_set_padding")
    ELSE ResolvePadding([n EXCEPT !._args["c"] = PyInt(in_shape[2] \div 2)],
                        1, 1, in_shape)

Conv_set_padding(n, in_shape) ==
    IF n._args["p"] \in {PyStr("half"), PyStr("same")}
    THEN ResolvePadding(n, 1, IF n._args["p"] = PyStr("half") THEN 2 ELSE 1, in_shape)
    ELSE IF n._args["p"] = PyStr("double")
    THEN ResolveDouble([n EXCEPT !._upsample = 2], in_shape)
    ELSE Ok(n, in_shape)

\* shape_dict[ndim - 1] with Python's indexing of a 3-element list
Conv_find_layer(in_shape) ==
    LET shape_dict == <<"Conv1d", "Conv2d", "Conv3d">>
        ndim == Len(in_shape) - 2
        idx  == ndim - 1
    IN  IF idx \in 0..2 THEN [err |-> "", cls |-> shape_dict[idx + 1]]
        ELSE IF idx \in (-3)..(-1) THEN [err |-> "", cls |-> shape_dict[idx + 4]]
        ELSE [err |-> "IndexError", cls |-> "none"]

Conv_kwargs_dict ==
    [kernel_size |-> "k", out_channels |-> "c", stride |-> "s", padding |-> "p",
     dilation |-> "d", groups |-> "g", bias |-> "b"]

Linear_kwargs_dict == [out_features |-> "o", bias |-> "b"]

MonoNode_get_kwargs(n, kd) == [k \in DOMAIN kd |-> n._args[kd[k]]]

Conv_get_kwargs(n, in_shape) ==
    IF Len(in_shape) < 2 THEN [err |-> "IndexError", kw |-> EmptyDict]
    ELSE [err |-> "",
          kw |-> Put(MonoNode_get_kwargs(n, Conv_kwargs_dict), "in_channels",
                     PyInt(in_shape[2]))]

(***************************************************************************)
(* Linear.                                                                 *)
(***************************************************************************)
\* the product of the non-batch dimensions whatever flat is
Linear_get_kwargs_prodAlways(n, in_shape) ==
    IF ~Truthy(n._args["flat"]) /\ Len(in_shape) = 0
    THEN [err |-> "IndexError", kw |-> EmptyDict]
    ELSE [err |-> "",
          kw |-> Put(MonoNode_get_kwargs(n, Linear_kwargs_dict), "in_features",
                     PyInt(prod(Tail(in_shape))))]

\* lines 201-206
Linear_get_kwargs(n, in_shape) ==
    IF ~Truthy(n._args["flat"]) /\ Len(in_shape) = 0
    THEN [err |-> "IndexError", kw |-> EmptyDict]
    ELSE [err |-> "",
          kw |-> Put(MonoNode_get_kwargs(n, Linear_kwargs_dict), "in_features",
                     PyInt(IF Truthy(n._args["flat"]) THEN prod(Tail(in_shape))
                           ELSE in_shape[Len(in_shape)]))]

(***************************************************************************)
(* build and forward.                                                      *)
(***************************************************************************)
\* Node.build: device placement and the state transition
Node_build(n, x) == Ok([n EXCEPT !._built = TRUE], x)

\* a layer already bound is kept by a later build
BindLayer_keepsLayer(n, x, cls, kw, ctorErr) ==
    IF ctorErr # "" THEN Fail(n, ctorErr, "layer_class")
    ELSE IF n._layer # NoLayer THEN Node_build(n, x)
    ELSE Node_build([n EXCEPT !._layer = [cls |-> cls, kw |-> kw, id |-> n.nbuilds]], x)

\* lines 100-102: the layer is constructed and bound, then Node.build
BindLayer(n, x, cls, kw, ctorErr) ==
    IF ctorErr # "" THEN Fail(n, ctorErr, "layer_class")
    ELSE Node_build([n EXCEPT !._layer = [cls |-> cls, kw |-> kw, id |-> n.nbuilds]], x)

\* lines 98-100, given what _find_layer and _get_kwargs returned
BuildLayer(n, x, fl, gk, strict) ==
    IF fl.err # "" THEN Fail(n, fl.err, "_find_layer")
    ELSE IF gk.err # "" THEN Fail(n, gk.err, "_get_kwargs")
    ELSE BindLayer(n, x, fl.cls, gk.kw, LayerCtorErr(fl.cls, gk.kw, strict))

\* MonoNode.build: layer class, keyword arguments, layer construction
MonoNode_build(n, x, strict) ==
    BuildLayer(n, x,
               IF n.kind = "Conv" THEN Conv_find_layer(x)
               ELSE [err |-> "", cls |-> "Linear"],
               IF n.kind = "Conv" THEN Conv_get_kwargs(n, x)
               ELSE Linear_get_kwargs(n, x),
               strict)

\* Conv.build once _set_padding has returned or raised
Conv_padded(sp, x, strict) ==
    IF sp.err # "" THEN sp ELSE MonoNode_build(sp.node, x, strict)

Conv_build(n, x, strict) == Conv_padded(Conv_set_padding(n, x), x, strict)

build(n, x, strict) ==
    IF n.kind = "Lambda" THEN Node_build(n, x)
    ELSE IF n.kind = "Linear" THEN MonoNode_build(n, x, strict)
    ELSE Conv_build(n, x, strict)

\* the build-lock read with the wrong polarity
NeedsBuild_lockInverted(n, lock) == ~(n._built /\ ~lock)

\* the condition of Node.forward under which build is called
NeedsBuild(n, lock) == ~(n._built /\ lock)

Node_forward(n, x, lock, strict) ==
    IF NeedsBuild(n, lock)
    THEN build([n EXCEPT !.nbuilds = @ + 1], x, strict)
    ELSE Ok(n, x)

\* the warning of a forward call: lines 21-22, 104-106, 137-139, 193-196 and
\* 236-238 call warnings.warn nowhere, whatever the build-lock
forward_warned(n, lock) == FALSE

\* line 106: the activation of what the layer returned
Activate(n, y) ==
    IF y.err # "" THEN Fail(n, y.err, "_layer")
    ELSE IF ActivationErr(n._activation) # ""
    THEN Fail(n, ActivationErr(n._activation), "_activation")
    ELSE Ok(n, y.out)

\* line 106, once Node.forward has returned or raised
Layered(b, x) ==
    IF b.err # "" THEN b ELSE Activate(b.node, LayerApply(b.node._layer, x))

MonoNode_forward(n, x, lock, strict) == Layered(Node_forward(n, x, lock, strict), x)

\* the forward of a MonoNode on the input its subclass prepared
Prepared(n, u, where, lock, strict) ==
    IF u.err # "" THEN Fail(n, u.err, where)
    ELSE MonoNode_forward(n, u.out, lock, strict)

Conv_forward(n, x, lock, strict) ==
    Prepared(n,
             IF n._upsample # 0 THEN upsample(x, n._upsample)
             ELSE [err |-> "", out |-> x],
             "upsample", lock, strict)

\* x.view(x.size(0), -1)
view(x) ==
    IF Len(x) = 0 THEN [err |-> "IndexError", out |-> << >>]
    ELSE [err |-> "", out |-> <<x[1], prod(Tail(x))>>]

Linear_forward(n, x, lock, strict) ==
    Prepared(n,
             IF Truthy(n._args["flat"]) THEN view(x) ELSE [err |-> "", out |-> x],
             "view", lock, strict)

\* the wrapped functions keep the shape
Lambda_forward(n, x, lock, strict) == Node_forward(n, x, lock, strict)

forward(n, x, lock, strict) ==
    IF n.kind = "Conv" THEN Conv_forward(n, x, lock, strict)
    ELSE IF n.kind = "Linear" THEN Linear_forward(n, x, lock, strict)
    ELSE Lambda_forward(n, x, lock, strict)

(***************************************************************************)
(* Enumeration of parameters and replication.                              *)
(***************************************************************************)
\* the built check made to depend on the build-lock
parameters_lockChecked(n, lock) ==
    IF ~(n._built /\ lock) THEN [err |-> "RuntimeError", warned |-> FALSE]
    ELSE [err |-> "", warned |-> ~lock]

\* Node.parameters and Node.named_parameters: the same two checks
parameters(n, lock) ==
    IF ~n._built THEN [err |-> "RuntimeError", warned |-> FALSE]
    ELSE [err |-> "", warned |-> ~lock]

named_parameters(n, lock) ==
    IF ~n._built THEN [err |-> "RuntimeError", warned |-> FALSE]
    ELSE [err |-> "", warned |-> ~lock]

\* self.__class__(**kwargs)
Sibling(n, kwargs) == Construct(n.kind, << >>, kwargs)

\* range(n) in the place of range(n - 1)
_mul_int_offByOne(n, count) ==
    [j \in 1..(IF count > 0 THEN count ELSE 0) |-> Sibling(n, n._args).node]

\* [self.__class__(**self._args) for _ in range(n - 1)]
_mul_int(n, count) ==
    [j \in 1..(IF count > 1 THEN count - 1 ELSE 0) |-> Sibling(n, n._args).node]

\* the parameter a list replication varies
VariedKey(kind) == IF kind = "Conv" THEN "c" ELSE "o"

\* the node's own value left as it was
_mul_list_self_unset(n, vals) == n

\* Conv._mul_list and Linear._mul_list, for a non-empty list: the node itself
\* with its own value set, and the siblings
_mul_list_self(n, vals) == [n EXCEPT !._args[VariedKey(n.kind)] = vals[1]]

_mul_list(n, vals) ==
    LET kwargs == _mul_list_self(n, vals)._args
    IN  [j \in 1..(Len(vals) - 1) |->
            Sibling(n, [kwargs EXCEPT ![VariedKey(n.kind)] = vals[j + 1]]).node]

(***************************************************************************)
(* CallbackQueue (magnet/training/callbacks.py): a list of callbacks, each  *)
(* with a name.                                                            *)
(***************************************************************************)
NoCallback == [cls |-> "none", name |-> ""]

\* the callbacks of the queue named name, in order
Matching(q, name) == SelectSeq(q, LAMBDA callback : callback.name = name)

\* find: None, the one callback of that name, or the multiple-match error
CallbackQueue_find(q, name) ==
    IF Len(Matching(q, name)) = 0 THEN [err |-> "", found |-> NoCallback]
    ELSE IF Len(Matching(q, name)) = 1 THEN [err |-> "", found |-> Matching(q, name)[1]]
    ELSE [err |-> "RuntimeError", found |-> NoCallback]

\* exists: self.find(name) is not None
CallbackQueue_exists(q, name) ==
    [err |-> CallbackQueue_find(q, name).err,
     out |-> CallbackQueue_find(q, name).found # NoCallback]

\* the callback appended whatever the queue holds
CallbackQueue_append_unchecked(q, callback) ==
    [err |-> "", queue |-> Append(q, callback)]

\* append: only a callback whose name the queue does not hold yet
CallbackQueue_append(q, callback) ==
    IF CallbackQueue_exists(q, callback.name).err # ""
    THEN [err |-> CallbackQueue_exists(q, callback.name).err, queue |-> q]
    ELSE IF ~CallbackQueue_exists(q, callback.name).out
    THEN [err |-> "", queue |-> Append(q, callback)]
    ELSE [err |-> "", queue |-> q]

(***************************************************************************)
(* The inputs of the model.                                                *)
(***************************************************************************)
PaddingModes ==
    {PyStr("half"), PyStr("same"), PyStr("double"), PyInt(1), PyNone, PyStr("full")}

Kw1(k, v) == Put(EmptyDict, k, v)
Kw2(k1, v1, k2, v2) == Put(Kw1(k1, v1), k2, v2)

\* Conv(k=k, p=p) and Conv(4, k=k, p=p)
ConvCalls ==
    {[kind |-> "Conv", args |-> a, kwargs |-> Kw2("k", PyInt(k), "p", p)] :
        a \in {<< >>, <<PyInt(4)>>}, k \in 1..MaxK, p \in PaddingModes}

\* Linear(flat=f) and Linear(3, flat=f)
LinearCalls ==
    {[kind |-> "Linear", args |-> a, kwargs |-> Kw1("flat", PyBool(f))] :
        a \in {<< >>, <<PyInt(3)>>}, f \in BOOLEAN}

\* Lambda(fn)
LambdaCalls == {[kind |-> "Lambda", args |-> <<PyFn("fn")>>, kwargs |-> EmptyDict]}

\* Conv(4, c=8) and Linear(3, o=5): a parameter given by position and by
\* keyword; Conv('stem', 4, 1): a name, then positional arguments
MixedCalls ==
    {[kind |-> "Conv", args |-> <<PyInt(4)>>, kwargs |-> Kw1("c", PyInt(8))],
     [kind |-> "Linear", args |-> <<PyInt(3)>>, kwargs |-> Kw1("o", PyInt(5))],
     [kind |-> "Conv", args |-> <<PyStr("stem"), PyInt(4), PyInt(1)>>,
      kwargs |-> EmptyDict]}

\* the constructor calls of the single-node runs
Calls == ConvCalls \cup LinearCalls \cup LambdaCalls \cup MixedCalls

\* the constructor calls of the runs with replication
RepCalls ==
    {[kind |-> "Conv", args |-> << >>, kwargs |-> Kw1("p", PyStr("half"))],
     [kind |-> "Conv", args |-> <<PyInt(4)>>, kwargs |-> Kw1("p", PyStr("double"))],
     [kind |-> "Conv", args |-> << >>, kwargs |-> Kw2("k", PyInt(2), "p", PyInt(1))],
     [kind |-> "Linear", args |-> <<PyInt(3)>>, kwargs |-> EmptyDict]}
    \cup LambdaCalls

\* the input shapes of the single-node runs: every spatial size, and the
\* ranks -1 to 4
Shapes ==
    {<<1, 2, S>> : S \in 1..MaxS}
    \cup {<<2>>, <<1, 2>>, <<1, 4, 2>>, <<1, 2, 2, 2>>, <<1, 2, 2, 2, 2>>,
          <<1, 2, 2, 2, 2, 2>>, <<4, 3, 8, 8>>}

\* the input shapes of the runs with replication
RepShapes == {<<1, 2, 2>>}

\* the default names of Monitor, Validate and Checkpoint
CallbackNames == {"monitor", "validate", "checkpoint"}

\* Monitor(name=n), Validate(name=n), Checkpoint(name=n): callbacks of one
\* name are different objects
Callbacks ==
    {[cls |-> c, name |-> n] : c \in {"Monitor", "Validate", "Checkpoint"},
                              n \in CallbackNames}

\* the lists 2, 4, 2, ... of every length
Lists == {[j \in 1..m |-> PyInt(IF j % 2 = 1 THEN 2 ELSE 4)] : m \in 0..MaxNodes}

(***************************************************************************)
(* The state machine.                                                      *)
(***************************************************************************)
VARIABLES
    nodes,        \* the node objects alive, in order of construction
    build_lock,   \* mag.build_lock
    last,         \* the last call made and how it ended
    queue         \* a CallbackQueue

vars == <<nodes, build_lock, last, queue>>

\* op: the call; kind, args, kwargs: the constructor call, for op = "init";
\* node: the receiver of a call and pre: the receiver before the call;
\* x, n, vals: its argument (a shape, an integer, a list); lock: the
\* build-lock at the call; err, at: the exception raised and where; out: the
\* shape returned; warned: a warning was emitted; res: the nodes returned;
\* callback, cbname: the argument of append and of find; found: what find
\* returned
NoCall ==
    [op |-> "none", kind |-> "", args |-> << >>, kwargs |-> EmptyDict,
     node |-> 0, pre |-> NoNode, x |-> << >>, n |-> 0, vals |-> << >>,
     lock |-> TRUE, err |-> "", at |-> "", out |-> << >>, warned |-> FALSE,
     res |-> << >>, callback |-> NoCallback, cbname |-> "", found |-> NoCallback]

\* the state once the constructor has returned or raised
Constructed(c, r) ==
    /\ nodes = IF r.err = "" THEN <<[r.node EXCEPT !.args_id = 1]>> ELSE << >>
    /\ last = [NoCall EXCEPT !.op = "init", !.kind = c.kind, !.args = c.args,
                             !.kwargs = c.kwargs, !.err = r.err]

InitFrom(calls) ==
    /\ build_lock = TRUE
    /\ queue = << >>
    /\ \E c \in calls : Constructed(c, Construct(c.kind, c.args, c.kwargs))

\* mag.build_lock = not mag.build_lock
SetBuildLock ==
    /\ build_lock' = ~build_lock
    /\ UNCHANGED <<nodes, last, queue>>

RECURSIVE TotalBuilds(_)
TotalBuilds(ns) == IF Len(ns) = 0 THEN 0 ELSE Head(ns).nbuilds + TotalBuilds(Tail(ns))

\* the nodes once node i has become node: an assignment to a key of its
\* _args is seen by every node whose _args is the same dict object
Stored(ns, i, node) ==
    [j \in 1..Len(ns) |->
        IF j = i THEN node
        ELSE IF ns[j].args_id = node.args_id
        THEN [ns[j] EXCEPT !._args = node._args]
        ELSE ns[j]]

\* the state once the call has returned or raised
Returned(op, i, x, r) ==
    /\ nodes' = Stored(nodes, i, r.node)
    /\ last' = [NoCall EXCEPT !.op = op, !.node = i, !.x = x, !.err = r.err,
                              !.at = r.at, !.out = r.out, !.pre = nodes[i],
                              !.lock = build_lock,
                              !.warned = forward_warned(nodes[i], build_lock)]
    /\ UNCHANGED <<build_lock, queue>>

Call(op, i, x, strict) ==
    /\ NeedsBuild(nodes[i], build_lock) => TotalBuilds(nodes) < MaxBuilds
    /\ Returned(op, i, x, forward(nodes[i], x, build_lock, strict))

\* the runtime's strictness shows only on a padding that reaches the layer
\* constructor as a string: one that _set_padding does not resolve
Stricts(n) ==
    IF /\ n.kind = "Conv"
       /\ IsStr(n._args["p"])
       /\ n._args["p"] \notin {PyStr("half"), PyStr("same"), PyStr("double")}
    THEN BOOLEAN ELSE {FALSE}

\* node(x)
Forward(shapes) ==
    \E i \in 1..Len(nodes), x \in shapes : \E strict \in Stricts(nodes[i]) :
        Call("forward", i, x, strict)

\* node.get_output_shape(in_shape): node(torch.randn(in_shape)).size()
GetOutputShape(shapes) ==
    \E i \in 1..Len(nodes), x \in shapes : \E strict \in Stricts(nodes[i]) :
        Call("get_output_shape", i, x, strict)

\* the state once parameters() or named_parameters() has returned or raised
Enumerated(op, i, r) ==
    /\ last' = [NoCall EXCEPT !.op = op, !.node = i, !.err = r.err,
                              !.at = IF r.err = "" THEN "" ELSE op,
                              !.pre = nodes[i], !.lock = build_lock,
                              !.warned = r.warned]
    /\ UNCHANGED <<nodes, build_lock, queue>>

Parameters ==
    \E i \in 1..Len(nodes) :
        Enumerated("parameters", i, parameters(nodes[i], build_lock))

NamedParameters ==
    \E i \in 1..Len(nodes) :
        Enumerated("named_parameters", i, named_parameters(nodes[i], build_lock))

\* the nodes i, then Len(nodes) + 1, ... : the list a replication returns
Returns(i, count) ==
    [j \in 1..(count + 1) |-> IF j = 1 THEN i ELSE Len(nodes) + j - 1]

\* the sibling's dict is the original's own dict object
UnpackedInto_sameDict(self_id, fresh_id) == self_id

\* self.__class__(**self._args) and self._args.copy(): the dict a sibling is
\* constructed from, and so its _args, is a new object
UnpackedInto(self_id, fresh_id) == fresh_id

\* the siblings as they are placed after the nodes alive
Placed(i, sib) ==
    [j \in 1..Len(sib) |->
        [sib[j] EXCEPT !.args_id = UnpackedInto(nodes[i].args_id, Len(nodes) + j)]]

\* the state once a replication has returned its siblings
Replicated(op, i, n, vals, self, sib) ==
    /\ Len(nodes) + Len(sib) <= MaxNodes
    /\ nodes' = Stored(nodes, i, self) \o Placed(i, sib)
    /\ last' = [NoCall EXCEPT !.op = op, !.node = i, !.n = n, !.vals = vals,
                              !.pre = nodes[i], !.lock = build_lock,
                              !.res = Returns(i, Len(sib))]
    /\ UNCHANGED <<build_lock, queue>>

\* node * n for an integer n
MulInt ==
    \E i \in 1..Len(nodes), n \in 0..MaxNodes :
        Replicated("mul_int", i, n, << >>, nodes[i], _mul_int(nodes[i], n))

\* node * n for a list or tuple n: Node._mul_list returns None, and n[0]
\* raises on an empty list
MulList ==
    \E i \in 1..Len(nodes), vals \in Lists :
        IF nodes[i].kind = "Lambda" \/ Len(vals) = 0
        THEN /\ last' = [NoCall EXCEPT
                            !.op = "mul_list", !.node = i, !.vals = vals,
                            !.pre = nodes[i], !.lock = build_lock,
                            !.err = IF nodes[i].kind = "Lambda" THEN ""
                                    ELSE "IndexError",
                            !.at = IF nodes[i].kind = "Lambda" THEN ""
                                   ELSE "_mul_list"]
             /\ UNCHANGED <<nodes, build_lock, queue>>
        ELSE Replicated("mul_list", i, 0, vals, _mul_list_self(nodes[i], vals),
                        _mul_list(nodes[i], vals))

\* the runs with replication: few constructor calls and shapes
Init == InitFrom(RepCalls)

Next ==
    \/ SetBuildLock
    \/ Forward(RepShapes)
    \/ GetOutputShape(RepShapes)
    \/ Parameters
    \/ NamedParameters
    \/ MulInt
    \/ MulList

Spec == Init /\ [][Next]_vars

\* the single-node runs: every constructor call and shape, no replication
InitNode == InitFrom(Calls)

NextNode ==
    \/ SetBuildLock
    \/ Forward(Shapes)
    \/ GetOutputShape(Shapes)
    \/ Parameters
    \/ NamedParameters

SpecNode == InitNode /\ [][NextNode]_vars

\* the single-node runs in which the build-lock stays enabled
NextLocked ==
    \/ Forward(Shapes)
    \/ GetOutputShape(Shapes)
    \/ Parameters
    \/ NamedParameters

SpecLocked == InitNode /\ [][NextLocked]_vars

\* the queue once append has returned or raised
Appended(callback, r) ==
    /\ queue' = r.queue
    /\ last' = [NoCall EXCEPT !.op = "append", !.callback = callback, !.err = r.err]
    /\ UNCHANGED <<nodes, build_lock>>

\* queue.append(callback)
QueueAppend ==
    \E callback \in Callbacks : Appended(callback, CallbackQueue_append(queue, callback))

\* what find returned or raised
Found(name, r) ==
    /\ last' = [NoCall EXCEPT !.op = "find", !.cbname = name, !.err = r.err,
                              !.found = r.found]
    /\ UNCHANGED <<nodes, build_lock, queue>>

\* queue.find(name)
QueueFind ==
    \E name \in CallbackNames : Found(name, CallbackQueue_find(queue, name))

\* the runs of a callback queue, empty at first
InitQueue ==
    /\ nodes = << >>
    /\ build_lock = TRUE
    /\ last = NoCall
    /\ queue = << >>

NextQueue ==
    \/ QueueAppend
    \/ QueueFind

SpecQueue == InitQueue /\ [][NextQueue]_vars

TypeOK ==
    /\ build_lock \in BOOLEAN
    /\ Len(nodes) <= MaxNodes
    /\ \A i \in 1..Len(nodes) : nodes[i].nbuilds <= MaxBuilds

(***************************************************************************)
(* Properties.                                                             *)
(***************************************************************************)
CallOps == {"forward", "get_output_shape"}

ParamOps == {"parameters", "named_parameters"}

\* the receiver of the last call, as it is now
Recv == nodes[last.node]

C2_ParametersNeedBuilt ==
    [][last'.op \in ParamOps =>
          /\ nodes' = nodes
          /\ (last'.err = "RuntimeError") <=> ~nodes[last'.node]._built
          /\ (last'.err = "") <=> nodes[last'.node]._built]_vars

\* parameters() was refused on an Unbuilt node while the lock was disabled
C2_Witness ==
    /\ last.op \in ParamOps
    /\ last.err = "RuntimeError"
    /\ ~last.lock
    /\ ~Recv._built
    /\ Recv._args = last.pre._args

\* the spatial sizes of a shape are its entries from the third on
Spatial(x) == 3..Len(x)

\* a first call: a forward or get_output_shape on a Conv that was Unbuilt
FirstConvCall ==
    /\ last.op \in CallOps
    /\ last.pre.kind = "Conv"
    /\ ~last.pre._built

\* C3: with the build-lock enabled, get_output_shape(shape) called twice in
\* succession on an initially Unbuilt node returns the same shape both times,
\* and the second call does not rebuild the layer.
C3_GetOutputShapeTwice ==
    [][(/\ last.op = "get_output_shape" /\ last'.op = "get_output_shape"
        /\ last'.node = last.node /\ last'.x = last.x
        /\ last.lock /\ last'.lock
        /\ ~last.pre._built /\ last.err = "")
       => /\ last'.err = ""
          /\ last'.out = last.out
          /\ nodes'[last.node]._layer = nodes[last.node]._layer
          /\ nodes'[last.node].nbuilds = nodes[last.node].nbuilds]_vars

\* C4: every forward call of a Conv with padding mode 'double', the first one
\* included, returns the spatial sizes doubled.
C4_DoubleDoubles ==
    (/\ last.op \in CallOps
     /\ last.pre.kind = "Conv"
     /\ \/ last.pre._args["p"] = PyStr("double")
        \/ last.pre._upsample = 2
     /\ last.err = "")
    => \A i \in Spatial(last.x) : last.out[i] = 2 * last.x[i]

\* C5: the build of a Conv with padding mode 'half' resolves stride 2,
\* dilation 1 and padding k // 2, and the output spatial size is floor(S / 2).
C5_HalfHalves ==
    (FirstConvCall /\ last.pre._args["p"] = PyStr("half") /\ last.err = "")
    => /\ Recv._args["s"] = PyInt(2)
       /\ Recv._args["d"] = PyInt(1)
       /\ Recv._args["p"] = PyInt(last.pre._args["k"].n \div 2)
       /\ \A i \in Spatial(last.x) : last.out[i] = last.x[i] \div 2

\* C6: the build of a Conv with padding mode 'same' resolves stride 1 and
\* padding k // 2, and the output spatial size is S.
C6_SameKeeps ==
    (FirstConvCall /\ last.pre._args["p"] = PyStr("same") /\ last.err = "")
    => /\ Recv._args["s"] = PyInt(1)
       /\ Recv._args["p"] = PyInt(last.pre._args["k"].n \div 2)
       /\ \A i \in Spatial(last.x) : last.out[i] = last.x[i]

\* C7, for a Conv given its out-channels and an input a convolution accepts
\* (rank 1 to 3): a padding mode that is none of 'half', 'same', 'double', an
\* integer or None makes the build fail in padding resolution, with no layer
\* and the node left Unbuilt; an integer or None is passed on as it is, stride
\* and dilation too.
C7_UnknownPaddingFails ==
    (FirstConvCall /\ Len(last.x) - 2 \in 1..3 /\ IsInt(last.pre._args["c"])) =>
        LET p == last.pre._args["p"]
        IN  /\ (IsStr(p) /\ p.s \notin {"half", "same", "double"}) =>
                  /\ last.err # ""
                  /\ last.at = "_set_padding"
                  /\ ~Recv._built
                  /\ Recv._layer = NoLayer
            /\ (IsInt(p) \/ p = PyNone) =>
                  /\ Recv._args["p"] = p
                  /\ Recv._args["s"] = last.pre._args["s"]
                  /\ Recv._args["d"] = last.pre._args["d"]

\* C8: a build that completes on an input of rank 1, 2 or 3 selects Conv1d,
\* Conv2d or Conv3d; on an input of rank <= 0 or > 3 the build fails, with no
\* layer and the node left Unbuilt.
C8_RankSelectsLayer ==
    FirstConvCall =>
        LET rank == Len(last.x) - 2
        IN  /\ (rank \in 1..3 /\ Recv._built) =>
                  Recv._layer.cls = <<"Conv1d", "Conv2d", "Conv3d">>[rank]
            /\ rank \notin 1..3 =>
                  /\ last.err # ""
                  /\ last.at \in {"_set_padding", "_find_layer", "_get_kwargs",
                                  "layer_class"}
                  /\ ~Recv._built
                  /\ Recv._layer = NoLayer

\* a fresh instance of the class of node n: never built, holding no layer
IsFresh(m, n) ==
    /\ m.kind = n.kind
    /\ ~m._built
    /\ m._layer = NoLayer
    /\ m._upsample = 0
    /\ m.nbuilds = 0

\* the nodes a replication returned, after the original, are pairwise distinct
\* objects other than the original
DistinctSiblings ==
    \A j, k \in 1..Len(last.res) : j # k => last.res[j] # last.res[k]

\* C9 as stated: node * n returns exactly n nodes for an integer n.
C9_MulIntReturnsN ==
    last.op = "mul_int" => Len(last.res) = last.n

\* C9, amended: for an integer n >= 1, node * n returns n nodes, the original
\* first and then n - 1 fresh instances of its class, each Unbuilt and holding
\* the original's captured configuration; for n <= 0 it returns the original
\* alone.
C9_MulInt ==
    last.op = "mul_int" =>
        /\ last.res[1] = last.node
        /\ Recv = last.pre
        /\ DistinctSiblings
        /\ last.n >= 1 => Len(last.res) = last.n
        /\ last.n <= 0 => Len(last.res) = 1
        /\ \A j \in 2..Len(last.res) :
              /\ IsFresh(nodes[last.res[j]], Recv)
              /\ nodes[last.res[j]]._args = Recv._args

\* a Built Conv was replicated by 3
C9_Witness ==
    /\ last.op = "mul_int"
    /\ last.n = 3
    /\ Len(last.res) = 3
    /\ Recv.kind = "Conv"
    /\ Recv._built

\* C10: node * [v1, ..., vm] on a Conv (a Linear) returns m nodes in order
\* whose out-channels (out-features) are v1, ..., vm, the original first with
\* its own value set to v1; every other parameter of every returned node is
\* the original's, which the call leaves as it was.
C10_MulList ==
    (last.op = "mul_list" /\ last.pre.kind \in {"Conv", "Linear"}
       /\ Len(last.vals) >= 1) =>
        LET key == VariedKey(last.pre.kind)
        IN  /\ last.err = ""
            /\ Len(last.res) = Len(last.vals)
            /\ last.res[1] = last.node
            /\ DistinctSiblings
            /\ \A j \in 2..Len(last.res) : IsFresh(nodes[last.res[j]], Recv)
            /\ \A j \in 1..Len(last.res) :
                  LET a == nodes[last.res[j]]._args
                  IN  /\ a[key] = last.vals[j]
                      /\ DOMAIN a = DOMAIN last.pre._args
                      /\ \A k \in DOMAIN a \ {key} : a[k] = last.pre._args[k]

\* a Conv was replicated by the list 2, 4, 2
C10_Witness ==
    /\ last.op = "mul_list"
    /\ last.pre.kind = "Conv"
    /\ Len(last.res) = 3
    /\ nodes[last.res[2]]._args["c"] = PyInt(4)

\* C11: every forward call made while the build-lock is disabled emits the
\* warning that the node may be rebuilt, whether the node was Built or not
\* (stated for the calls that return).
C11_ForwardWarns ==
    (last.op \in CallOps /\ ~last.lock /\ last.err = "") => last.warned

\* the call reached Node.forward: the input preparation of Conv.forward and
\* Linear.forward did not raise
ReachedNodeForward(c) == c.at \notin {"upsample", "view"}

\* the build of the call returned
BuildReturned(c) == c.at \in {"", "_layer", "_activation"}

\* a step that is a forward or get_output_shape call
CallStep == last'.op \in CallOps /\ build_lock' = build_lock

\* C12 as stated: a forward call builds first exactly when the node is Unbuilt
\* or the build-lock is disabled; with the lock disabled every forward call on
\* a Built node runs build again, replaces the layer with a fresh instance and
\* leaves the node Built; with the lock enabled a Built node is not rebuilt.
C12_RebuildsEveryCall ==
    [][CallStep =>
          LET i == last'.node
          IN  /\ nodes'[i].nbuilds =
                    nodes[i].nbuilds + (IF NeedsBuild(nodes[i], build_lock) THEN 1 ELSE 0)
              /\ (nodes[i]._built /\ ~build_lock) =>
                    /\ nodes'[i]._built
                    /\ nodes[i].kind # "Lambda" =>
                          /\ nodes'[i]._layer # nodes[i]._layer
                          /\ nodes'[i]._layer.id = nodes'[i].nbuilds
              /\ (nodes[i]._built /\ build_lock) =>
                    nodes'[i]._layer = nodes[i]._layer]_vars

\* C12, amended: a forward call that reaches Node.forward builds first exactly
\* when the node is Unbuilt or the build-lock is disabled.  With the lock
\* disabled such a call on a Built node runs build again and leaves the node
\* Built; when that build returns, the layer of a Conv or Linear is a fresh
\* instance, and when it raises the layer stays the one it was.  With the lock
\* enabled a Built node is not rebuilt.
C12_Rebuilds ==
    [][CallStep =>
          LET i == last'.node
          IN  /\ nodes'[i].nbuilds =
                    nodes[i].nbuilds
                      + (IF ReachedNodeForward(last') /\ NeedsBuild(nodes[i], build_lock)
                         THEN 1 ELSE 0)
              /\ (nodes[i]._built /\ ~build_lock) =>
                    /\ nodes'[i]._built
                    /\ nodes[i].kind # "Lambda" =>
                          IF ReachedNodeForward(last') /\ BuildReturned(last')
                          THEN /\ nodes'[i]._layer # nodes[i]._layer
                               /\ nodes'[i]._layer.id = nodes'[i].nbuilds
                          ELSE nodes'[i]._layer = nodes[i]._layer
              /\ (nodes[i]._built /\ build_lock) =>
                    nodes'[i]._layer = nodes[i]._layer]_vars

\* a Built Conv or Linear was called with the lock disabled and holds the
\* layer its second build constructed
C12_Witness ==
    /\ last.op \in CallOps
    /\ last.pre._built
    /\ ~last.lock
    /\ last.err = ""
    /\ last.pre._layer.id = 1
    /\ Recv._layer.id = 2
    /\ Recv._built

\* the positional arguments of the last constructor call after the name, and
\* its keywords other than the name
Positionals ==
    IF Len(last.args) > 0 /\ IsStr(last.args[1]) THEN Tail(last.args) ELSE last.args

Keywords == [k \in DOMAIN last.kwargs \ {"name"} |-> last.kwargs[k]]

\* a declared parameter is given by position and by keyword
Duplicate ==
    \E i \in 1..Len(Positionals) :
        /\ i <= Len(_default_params(last.kind))
        /\ _default_params(last.kind)[i][1] \in DOMAIN Keywords

\* C13: the construction of a Conv or Linear fails when a declared parameter
\* is given both by position and by keyword; without such a duplicate the
\* positional arguments are bound by position in the declared order, the
\* keywords by name, and every other declared parameter takes its default.
C13_DuplicateFails ==
    (last.op = "init" /\ last.kind \in {"Conv", "Linear"}) =>
        LET dpl == _default_params(last.kind)
        IN  /\ Duplicate => last.err # ""
            /\ (~Duplicate /\ Len(Positionals) <= Len(dpl)) =>
                  /\ last.err = ""
                  /\ \A i \in 1..Len(dpl) :
                        nodes[1]._args[dpl[i][1]] =
                            IF i <= Len(Positionals) THEN Positionals[i]
                            ELSE IF dpl[i][1] \in DOMAIN Keywords
                            THEN Keywords[dpl[i][1]]
                            ELSE dpl[i][2]

\* C14: the layer built by the first call of a Conv has the out-channels given
\* at construction, whatever the padding mode; out-channels left unset become
\* 2 * in-channels in 'half' mode and in-channels // 2 in 'double' mode.
C14_UserChannelsKept ==
    (FirstConvCall /\ last.pre.nbuilds = 0 /\ last.err = "") =>
        LET c   == last.pre._args["c"]
            p   == last.pre._args["p"]
            kw  == Recv._layer.kw
        IN  /\ c # PyNone => kw["out_channels"] = c
            /\ (c = PyNone /\ p = PyStr("half")) =>
                  kw["out_channels"] = PyInt(2 * kw["in_channels"].n)
            /\ (c = PyNone /\ p = PyStr("double")) =>
                  kw["out_channels"] = PyInt(kw["in_channels"].n \div 2)

\* the build of the last call completed: the receiver holds the layer that
\* this call's build constructed
BuiltByLastCall ==
    /\ last.op \in CallOps
    /\ Recv.nbuilds = last.pre.nbuilds + 1
    /\ Recv._layer.id = Recv.nbuilds

\* C15: a Linear is built with in-features the product of the non-batch
\* dimensions of the input of the call if flat, and the size of its last
\* dimension if not.
C15_LinearInFeatures ==
    (BuiltByLastCall /\ last.pre.kind = "Linear") =>
        Recv._layer.kw["in_features"] =
            PyInt(IF Truthy(last.pre._args["flat"]) THEN prod(Tail(last.x))
                  ELSE last.x[Len(last.x)])

\* a Linear with flat true was built on an input of shape (4, 3, 8, 8) and
\* counts 192 in-features
C15_Witness ==
    /\ BuiltByLastCall
    /\ last.pre.kind = "Linear"
    /\ Truthy(last.pre._args["flat"])
    /\ last.x = <<4, 3, 8, 8>>
    /\ last.err = ""
    /\ Recv._layer.kw["in_features"] = PyInt(192)

\* the siblings the last replication returned
Siblings == {last.res[j] : j \in 2..Len(last.res)}

\* C16: the siblings of a replication hold the configuration the original
\* captured at construction, not the values its build derived; in a list
\* replication the varied parameter apart.
C16_SiblingsFromCaptured ==
    (last.op \in {"mul_int", "mul_list"} /\ last.pre.kind = "Conv") =>
        \A j \in Siblings :
            \A k \in {"p", "s", "d"} \cup (IF last.op = "mul_int" THEN {"c"} ELSE {}) :
                nodes[j]._args[k] = last.pre.captured[k]

\* C17: the keys of a node's captured configuration are those it had when
\* its constructor returned, whatever was done since.
C17_KeysFixed ==
    \A i \in 1..Len(nodes) : DOMAIN nodes[i]._args = DOMAIN nodes[i].captured

\* a Conv whose padding was resolved, built twice, was replicated by a list
C17_Witness ==
    /\ last.op = "mul_list"
    /\ Len(last.res) >= 2
    /\ Recv.kind = "Conv"
    /\ Recv._built
    /\ Recv.nbuilds = 2
    /\ Recv._args["p"] # Recv.captured["p"]
    /\ Recv._args["c"] # Recv.captured["c"]

\* C18: every node of the runs with replication but the first is a replica.
\* A forward or get_output_shape call on one node leaves every other node as
\* it was: its BuildState, its layer instance and its captured configuration.
C18_ReplicasIndependent ==
    [][CallStep =>
          \A j \in 1..Len(nodes) : j # last'.node => nodes'[j] = nodes[j]]_vars

\* a replica was built, padding resolution overwrote its configuration, and
\* another member of its replica set is as it was constructed
C18_Witness ==
    /\ last.op \in CallOps
    /\ Len(nodes) >= 2
    /\ Recv._built
    /\ Recv._args["p"] # last.pre._args["p"]
    /\ \E j \in 1..Len(nodes) :
          /\ j # last.node
          /\ nodes[j].kind = Recv.kind
          /\ ~nodes[j]._built
          /\ nodes[j]._args = last.pre._args

\* the places of a build where it raises before a layer is bound
BuildSites == {"_set_padding", "_find_layer", "_get_kwargs", "layer_class"}

\* C19: a Built Conv or Linear holds a layer, and no step reverts Built to
\* Unbuilt; a build that fails on an Unbuilt node leaves it Unbuilt, with no
\* layer and with its captured configuration as it was.
C19_FailedBuildLeavesNode ==
    [][\A i \in 1..Len(nodes) :
          /\ nodes[i]._built => nodes'[i]._built
          /\ (nodes'[i]._built /\ nodes'[i].kind \in {"Conv", "Linear"}) =>
                nodes'[i]._layer # NoLayer
          /\ (/\ CallStep /\ i = last'.node /\ last'.at \in BuildSites
              /\ ~nodes[i]._built)
             => /\ ~nodes'[i]._built
                /\ nodes'[i]._layer = NoLayer
                /\ nodes'[i]._args = nodes[i]._args]_vars

\* the callbacks of the queue have pairwise distinct names
DistinctNames(q) ==
    \A i, j \in 1..Len(q) : i # j => q[i].name # q[j].name

\* C20: the callbacks of a queue that was filled by append have pairwise
\* distinct names.  Appending a callback whose name the queue holds leaves
\* the queue as it was, appending another one puts it last; find never raises
\* and returns the one callback of that name, or None when there is none.
C20_DistinctNames ==
    [][/\ DistinctNames(queue')
       /\ last'.op = "append" =>
             /\ last'.err = ""
             /\ queue' = IF \E i \in 1..Len(queue) : queue[i].name = last'.callback.name
                         THEN queue
                         ELSE Append(queue, last'.callback)
       /\ last'.op = "find" =>
             /\ last'.err = ""
             /\ queue' = queue
             /\ IF \E i \in 1..Len(queue) : queue[i].name = last'.cbname
                THEN /\ last'.found.name = last'.cbname
                     /\ \E i \in 1..Len(queue) : queue[i] = last'.found
                ELSE last'.found = NoCallback]_vars

\* the queue holds three callbacks and the append of a second callback named
\* as its first one left it as it was
C20_Witness ==
    /\ last.op = "append"
    /\ Len(queue) = 3
    /\ queue[1].name = last.callback.name
    /\ queue[1] # last.callback
    /\ \A i \in 1..Len(queue) : queue[i] # last.callback

=============================================================================
